---- MODULE Spec2Model ----
(***************************************************************************)
(* Byte-range negotiation of google.resumable_media._download:             *)
(*   add_bytes_range  builds the Range request header in a caller's dict,   *)
(*   DownloadBase     holds the configuration of one download,              *)
(*   get_range_info   parses the Content-Range response header.             *)
(*                                                                          *)
(* Text is modelled as a sequence of one-character strings, so formatting   *)
(* and pattern matching are computed character by character.  Optional      *)
(* integers are <<>> (None) or <<n>>.  A dict is a function whose domain is *)
(* its set of keys.                                                         *)
(***************************************************************************)
EXTENDS Integers, Sequences, FiniteSets, TLC

VARIABLES
    heap,        \* the dict objects: heap[m] is the dict with identity m
    refs,        \* refs[c]: identities of the dicts caller c holds
    pc,          \* pc[c]: position of caller c ("idle" or inside add_bytes_range)
    frame,       \* frame[c]: locals of caller c's add_bytes_range activation
    downloads,   \* the DownloadBase instances constructed so far
    ctorNone,    \* history: indexes of instances constructed with headers=None
    owner,       \* history: owner[m] is the caller that dict m belongs to
    orig,        \* history: orig[m] is dict m as it was when it was created
    alone,       \* history: alone[m] is the calls of m's owner on m, applied to
                 \* orig[m] one after another
    lastSet,     \* history: arguments of the last completed call on dict m that
                 \* had a bound that is not None
    ncalls,      \* history: number of operations begun
    gpc,         \* position inside get_range_info
    response,    \* the response passed to get_range_info
    callback,    \* behaviour of the callback passed to get_range_info
    content_range, \* local of get_range_info
    match,       \* local of get_range_info
    events,      \* history: what the get_range_info call has done, in order
    outcome      \* how the get_range_info call ended

vars == <<heap, refs, pc, frame, downloads, ctorNone, owner, orig, alone, lastSet,
          ncalls, gpc, response, callback, content_range, match,
          events, outcome>>

hvars == <<heap, refs, pc, frame, downloads, ctorNone, owner, orig, alone, lastSet>>

gvars == <<gpc, response, callback, content_range, match, events, outcome>>

-----------------------------------------------------------------------------
(* Bounds *)

NCallers == 2
MaxCalls == 3
MaxDownloads == 2

-----------------------------------------------------------------------------
(* Values *)

None == <<>>
Some(n) == <<n>>
Val(o) == o[1]

Callers == 1..NCallers

EmptyDict == [k \in {} |-> <<>>]

\* headers[key] = value
SetItem(d, key, value) ==
    [k \in DOMAIN d \cup {key} |-> IF k = key THEN value ELSE d[k]]

RANGE_HEADER == "range"
OTHER_HEADER == "x-goog-encryption-algorithm"

DigitChars == <<"0", "1", "2", "3", "4", "5", "6", "7", "8", "9">>

RECURSIVE Decimal(_)
\* the decimal digits of a natural number, most significant first
Decimal(n) ==
    IF n < 10 THEN <<DigitChars[n + 1]>>
    ELSE Decimal(n \div 10) \o <<DigitChars[(n % 10) + 1]>>

\* u'{:d}'.format(n)
FormatD(n) == IF n < 0 THEN <<"-">> \o Decimal(-n) ELSE Decimal(n)

-----------------------------------------------------------------------------
(* add_bytes_range *)

NoRange == [none |-> TRUE]

\* BytesRange with the suffix form lost: a negative start gets the trailing dash
BytesRangeAlwaysDash(start, end) ==
    IF start = None
    THEN IF end = None
         THEN NoRange
         ELSE <<"0", "-">> \o FormatD(Val(end))
    ELSE IF end = None
         THEN FormatD(Val(start)) \o <<"-">>
         ELSE FormatD(Val(start)) \o <<"-">> \o FormatD(Val(end))

\* BytesRange with the early return lost: no bounds are taken as the range 0-
BytesRangeNoEarlyReturn(start, end) ==
    IF start = None
    THEN IF end = None
         THEN <<"0", "-">>
         ELSE <<"0", "-">> \o FormatD(Val(end))
    ELSE IF end = None
         THEN IF Val(start) < 0
              THEN FormatD(Val(start))
              ELSE FormatD(Val(start)) \o <<"-">>
         ELSE FormatD(Val(start)) \o <<"-">> \o FormatD(Val(end))

\* the bytes_range local after the branches, or NoRange on the early return
BytesRange(start, end) ==
    IF start = None
    THEN IF end = None
         THEN NoRange
         ELSE <<"0", "-">> \o FormatD(Val(end))
    ELSE IF end = None
         THEN IF Val(start) < 0
              THEN FormatD(Val(start))
              ELSE FormatD(Val(start)) \o <<"-">>
         ELSE FormatD(Val(start)) \o <<"-">> \o FormatD(Val(end))

BytesEq == <<"b", "y", "t", "e", "s", "=">>

\* StoreRange writing the unit with a space, as Content-Range has it
StoreRangeSpace(headers, bytes_range) ==
    SetItem(headers, RANGE_HEADER, <<"b", "y", "t", "e", "s", " ">> \o bytes_range)

\* StoreRange as headers.setdefault: a range already present is kept
StoreRangeKeep(headers, bytes_range) ==
    IF RANGE_HEADER \in DOMAIN headers
    THEN headers
    ELSE SetItem(headers, RANGE_HEADER, BytesEq \o bytes_range)

\* headers[_helpers.RANGE_HEADER] = u'bytes=' + bytes_range
StoreRange(headers, bytes_range) ==
    SetItem(headers, RANGE_HEADER, BytesEq \o bytes_range)

\* the whole of add_bytes_range on a dict value
AddBytesRange(start, end, headers) ==
    IF BytesRange(start, end) = NoRange
    THEN headers
    ELSE StoreRange(headers, BytesRange(start, end))

IdleFrame == [start |-> None, end |-> None, headers |-> 0, bytes_range |-> <<>>]

\* caller c enters add_bytes_range(start, end, heap[m]) and runs the branches:
\* it stands at the early return, or at the final assignment with bytes_range set
AddBytesRangeCall(c, start, end, m) ==
    /\ pc[c] = "idle"
    /\ m \in refs[c]
    /\ IF BytesRange(start, end) = NoRange
       THEN /\ pc' = [pc EXCEPT ![c] = "return"]
            /\ frame' = [frame EXCEPT ![c] =
                   [start |-> start, end |-> end, headers |-> m,
                    bytes_range |-> <<>>]]
       ELSE /\ pc' = [pc EXCEPT ![c] = "store"]
            /\ frame' = [frame EXCEPT ![c] =
                   [start |-> start, end |-> end, headers |-> m,
                    bytes_range |-> BytesRange(start, end)]]
    /\ UNCHANGED <<heap, refs, downloads, ctorNone, owner, orig, alone, lastSet>>
    /\ UNCHANGED gvars

\* caller c executes the early return: no range to add
AddBytesRangeReturn(c) ==
    /\ pc[c] = "return"
    /\ pc' = [pc EXCEPT ![c] = "idle"]
    /\ frame' = [frame EXCEPT ![c] = IdleFrame]
    /\ UNCHANGED <<heap, refs, downloads, ctorNone, owner, orig, alone, lastSet>>
    /\ UNCHANGED gvars

\* caller c executes the final assignment of add_bytes_range and returns
AddBytesRangeStore(c) ==
    /\ pc[c] = "store"
    /\ LET m == frame[c].headers
           args == <<frame[c].start, frame[c].end>>
       IN /\ heap' = [heap EXCEPT ![m] = StoreRange(heap[m], frame[c].bytes_range)]
          /\ alone' = IF owner[m] = c
                       THEN [alone EXCEPT ![m] = AddBytesRange(args[1], args[2], alone[m])]
                       ELSE alone
          /\ lastSet' = [lastSet EXCEPT ![m] = args]
    /\ pc' = [pc EXCEPT ![c] = "idle"]
    /\ frame' = [frame EXCEPT ![c] = IdleFrame]
    /\ UNCHANGED <<refs, downloads, ctorNone, owner, orig>>
    /\ UNCHANGED gvars

-----------------------------------------------------------------------------
(* DownloadBase *)

\* NewDict for a signature headers={}: one dict, made once, for every call
NewDictSharedDefault(h) == IF Len(h) > NCallers THEN NCallers + 1 ELSE Len(h) + 1

\* the dict a constructor call with headers=None binds to self._headers:
\* the result of evaluating {} in the body, a dict that did not exist before
NewDict(h) == Len(h) + 1

\* DownloadBase(media_url, start, end, headers) by caller c; hdrs is None or
\* the identity of a dict the caller holds
DownloadBaseInit(c, media_url, start, end, hdrs) ==
    /\ pc[c] = "idle"
    /\ Len(downloads) < MaxDownloads
    /\ hdrs # None => Val(hdrs) \in refs[c]
    /\ LET m == IF hdrs = None THEN NewDict(heap) ELSE Val(hdrs)
           self == [media_url |-> media_url, start |-> start, end |-> end,
                    _headers |-> m, _finished |-> FALSE]
       IN /\ downloads' = Append(downloads, self)
          /\ IF m > Len(heap)
             THEN /\ heap' = Append(heap, EmptyDict)
                  /\ owner' = Append(owner, c)
                  /\ orig' = Append(orig, EmptyDict)
                  /\ alone' = Append(alone, EmptyDict)
                  /\ lastSet' = Append(lastSet, None)
             ELSE UNCHANGED <<heap, owner, orig, alone, lastSet>>
          /\ refs' = [refs EXCEPT ![c] = @ \cup {m}]
          /\ ctorNone' = IF hdrs = None
                         THEN ctorNone \cup {Len(downloads) + 1}
                         ELSE ctorNone
    /\ UNCHANGED <<pc, frame>>
    /\ UNCHANGED gvars

\* the finished property
finished(self) == self._finished

-----------------------------------------------------------------------------
(* _CONTENT_RANGE_RE *)

UpperChars == <<"A", "B", "C", "D", "E", "F", "G", "H", "I", "J", "K", "L", "M",
                "N", "O", "P", "Q", "R", "S", "T", "U", "V", "W", "X", "Y", "Z">>
LowerChars == <<"a", "b", "c", "d", "e", "f", "g", "h", "i", "j", "k", "l", "m",
                "n", "o", "p", "q", "r", "s", "t", "u", "v", "w", "x", "y", "z">>

\* the lower-case form of a character
Lower(ch) ==
    IF \E i \in 1..Len(UpperChars) : UpperChars[i] = ch
    THEN LowerChars[CHOOSE i \in 1..Len(UpperChars) : UpperChars[i] = ch]
    ELSE ch

\* \d
IsDigit(ch) == \E i \in 1..Len(DigitChars) : DigitChars[i] = ch

DigitValue(ch) == (CHOOSE i \in 1..Len(DigitChars) : DigitChars[i] = ch) - 1

RECURSIVE IntOf(_)
\* int(text) for a text of decimal digits
IntOf(text) ==
    IF Len(text) = 0 THEN 0
    ELSE 10 * IntOf(SubSeq(text, 1, Len(text) - 1)) + DigitValue(text[Len(text)])

Lit(ch) == [kind |-> "lit", ch |-> ch]
Group(name) == [kind |-> "digits", name |-> name]

\* r'bytes (?P<start_byte>\d+)-(?P<end_byte>\d+)/(?P<total_bytes>\d+)'
CONTENT_RANGE_PATTERN ==
    <<Lit("b"), Lit("y"), Lit("t"), Lit("e"), Lit("s"), Lit(" "),
      Group("start_byte"), Lit("-"), Group("end_byte"), Lit("/"),
      Group("total_bytes")>>

\* the pattern compiled without flags
CaseSensitive == FALSE

\* flags=re.IGNORECASE
CONTENT_RANGE_IGNORECASE == TRUE

\* one literal character of the pattern against one character of the text
CharMatches(p, ch, ignorecase) ==
    IF ignorecase THEN Lower(p) = Lower(ch) ELSE p = ch

RECURSIVE DigitRun(_, _)
\* the number of digits of text from position pos on: what a greedy \d+ takes
DigitRun(text, pos) ==
    IF pos <= Len(text) /\ IsDigit(text[pos])
    THEN 1 + DigitRun(text, pos + 1)
    ELSE 0

RECURSIVE MatchFrom(_, _, _, _, _, _)
\* the elements i.. of the pattern against the text from position pos on.
\* Every \d+ of the pattern is followed by a literal that is no digit or by the
\* end of the pattern, so the greedy run is the only length that can match.
\* The result is None or the groups with the position where the match ends.
MatchFrom(pat, ignorecase, i, text, pos, groups) ==
    IF i > Len(pat)
    THEN Some([groups |-> groups, end |-> pos - 1])
    ELSE IF pat[i].kind = "lit"
    THEN IF pos <= Len(text) /\ CharMatches(pat[i].ch, text[pos], ignorecase)
         THEN MatchFrom(pat, ignorecase, i + 1, text, pos + 1, groups)
         ELSE None
    ELSE LET n == DigitRun(text, pos)
         IN IF n = 0
            THEN None
            ELSE MatchFrom(pat, ignorecase, i + 1, text, pos + n,
                           groups @@ (pat[i].name :> SubSeq(text, pos, pos + n - 1)))

\* pattern.match(text): the pattern at the beginning of the text; what follows
\* the match is not looked at
ReMatch(pat, ignorecase, text) ==
    MatchFrom(pat, ignorecase, 1, text, 1, EmptyDict)

\* _CONTENT_RANGE_RE.match(content_range)
ContentRangeMatch(text) ==
    ReMatch(CONTENT_RANGE_PATTERN, CONTENT_RANGE_IGNORECASE, text)

-----------------------------------------------------------------------------
(* get_range_info *)

CONTENT_RANGE_HEADER == "content-range"

Return(v) == [kind |-> "return", value |-> v]
Raise(e) == [kind |-> "raise", exc |-> e]

\* exceptions.InvalidResponse(response, *args)
InvalidResponse(resp, args) ==
    [type |-> "InvalidResponse", response |-> resp, args |-> args]

\* the failure header_required signals for a header the response lacks
MissingHeader(resp, name) ==
    [type |-> "header_required failure", response |-> resp, name |-> name]

\* _helpers.header_required(response, name)
header_required(resp, name) ==
    IF name \in DOMAIN resp.headers
    THEN Return(resp.headers[name])
    ELSE Raise(MissingHeader(resp, name))

\* what the exception of a callback that raises looks like
CallbackError == [type |-> "callback error"]

\* get_range_info(response, callback) is entered
GetRangeInfoCall(resp, cb) ==
    /\ gpc = "idle"
    /\ gpc' = "header_required"
    /\ response' = Some(resp)
    /\ callback' = cb
    /\ content_range' = None
    /\ match' = None
    /\ events' = <<>>
    /\ outcome' = None
    /\ UNCHANGED <<hvars, ncalls>>

\* GetRangeInfoHeader taking a missing header for an empty one
GetRangeInfoHeaderDefault ==
    /\ gpc = "header_required"
    /\ LET r == header_required(Val(response), CONTENT_RANGE_HEADER)
       IN content_range' = IF r.kind = "return" THEN Some(r.value) ELSE Some(<<>>)
    /\ gpc' = "match"
    /\ events' = Append(events, "header_required")
    /\ UNCHANGED <<response, callback, match, outcome>>
    /\ UNCHANGED <<hvars, ncalls>>

\* content_range = _helpers.header_required(response, CONTENT_RANGE_HEADER)
GetRangeInfoHeader ==
    /\ gpc = "header_required"
    /\ LET r == header_required(Val(response), CONTENT_RANGE_HEADER)
       IN IF r.kind = "return"
          THEN /\ content_range' = Some(r.value)
               /\ gpc' = "match"
               /\ UNCHANGED outcome
          ELSE /\ outcome' = Some(r)
               /\ gpc' = "done"
               /\ UNCHANGED content_range
    /\ events' = Append(events, "header_required")
    /\ UNCHANGED <<response, callback, match>>
    /\ UNCHANGED <<hvars, ncalls>>

\* match = _CONTENT_RANGE_RE.match(content_range); if match is None:
GetRangeInfoMatch ==
    /\ gpc = "match"
    /\ match' = ContentRangeMatch(Val(content_range))
    /\ gpc' = IF match' = None THEN "callback" ELSE "return"
    /\ events' = Append(events, "match")
    /\ UNCHANGED <<response, callback, content_range, outcome>>
    /\ UNCHANGED <<hvars, ncalls>>

\* GetRangeInfoCallback without the call
GetRangeInfoSkipCallback ==
    /\ gpc = "callback"
    /\ gpc' = "raise"
    /\ UNCHANGED <<response, callback, content_range, match, events, outcome>>
    /\ UNCHANGED <<hvars, ncalls>>

\* callback()
GetRangeInfoCallback ==
    /\ gpc = "callback"
    /\ events' = Append(events, "callback")
    /\ IF callback.kind = "raises"
       THEN /\ outcome' = Some(Raise(CallbackError))
            /\ gpc' = "done"
       ELSE /\ gpc' = "raise"
            /\ UNCHANGED outcome
    /\ UNCHANGED <<response, callback, content_range, match>>
    /\ UNCHANGED <<hvars, ncalls>>

UnexpectedMessage == "Unexpected content-range header"
ExpectedForm == "Expected to be of the form \"bytes {start}-{end}/{total}\""

\* raise exceptions.InvalidResponse(response, ..., content_range, ...)
GetRangeInfoRaise ==
    /\ gpc = "raise"
    /\ outcome' = Some(Raise(InvalidResponse(Val(response),
                       <<UnexpectedMessage, Val(content_range), ExpectedForm>>)))
    /\ gpc' = "done"
    /\ events' = Append(events, "raise")
    /\ UNCHANGED <<response, callback, content_range, match>>
    /\ UNCHANGED <<hvars, ncalls>>

\* GetRangeInfoReturn with the callback run on every way out
GetRangeInfoReturnNotify ==
    /\ gpc = "return"
    /\ LET g == Val(match).groups
       IN outcome' = Some(Return(<<IntOf(g["start_byte"]), IntOf(g["end_byte"]),
                                   IntOf(g["total_bytes"])>>))
    /\ gpc' = "done"
    /\ events' = events \o <<"callback", "return">>
    /\ UNCHANGED <<response, callback, content_range, match>>
    /\ UNCHANGED <<hvars, ncalls>>

\* return (int(match.group('start_byte')), int(...), int(...))
GetRangeInfoReturn ==
    /\ gpc = "return"
    /\ LET g == Val(match).groups
       IN outcome' = Some(Return(<<IntOf(g["start_byte"]), IntOf(g["end_byte"]),
                                   IntOf(g["total_bytes"])>>))
    /\ gpc' = "done"
    /\ events' = Append(events, "return")
    /\ UNCHANGED <<response, callback, content_range, match>>
    /\ UNCHANGED <<hvars, ncalls>>

-----------------------------------------------------------------------------
(* Initial state: every caller holds one dict of its own *)

OldRange == <<"b", "y", "t", "e", "s", "=", "1", "-", "2">>
OtherValue == <<"A", "E", "S">>

InitialDicts ==
    { EmptyDict,
      [k \in {OTHER_HEADER, RANGE_HEADER} |->
          IF k = RANGE_HEADER THEN OldRange ELSE OtherValue] }

GIdle ==
    /\ gpc = "idle"
    /\ response = None
    /\ callback = None
    /\ content_range = None
    /\ match = None
    /\ events = <<>>
    /\ outcome = None

Init ==
    /\ heap \in [Callers -> InitialDicts]
    /\ refs = [c \in Callers |-> {c}]
    /\ pc = [c \in Callers |-> "idle"]
    /\ frame = [c \in Callers |-> IdleFrame]
    /\ downloads = <<>>
    /\ ctorNone = {}
    /\ owner = [c \in Callers |-> c]
    /\ orig = heap
    /\ alone = heap
    /\ lastSet = [c \in Callers |-> None]
    /\ ncalls = 0
    /\ GIdle

-----------------------------------------------------------------------------
(* Inputs *)

OptOf(S) == {None} \cup {Some(n) : n \in S}

\* concurrent callers
ConcStarts == OptOf({7})
ConcEnds == OptOf({12})

\* the (start, end) a DownloadBase is constructed with
CtorBounds == {<<None, None>>, <<Some(7), Some(12)>>}

\* one caller, the bounds of the docstring and their neighbours
SeqInts == {-500, -1, 0, 9, 10, 499, 500, 999, 9500}

Begin == ncalls < MaxCalls /\ ncalls' = ncalls + 1

Next ==
    \/ \E c \in Callers, start \in ConcStarts, end \in ConcEnds, m \in 1..Len(heap) :
           Begin /\ AddBytesRangeCall(c, start, end, m)
    \/ \E c \in Callers : AddBytesRangeReturn(c) /\ UNCHANGED ncalls
    \/ \E c \in Callers : AddBytesRangeStore(c) /\ UNCHANGED ncalls
    \/ \E c \in Callers, b \in CtorBounds, hdrs \in OptOf(1..Len(heap)) :
           Begin /\ DownloadBaseInit(c, "http://media", b[1], b[2], hdrs)

Spec == Init /\ [][Next]_vars

NextSeq ==
    \/ \E start \in OptOf(SeqInts), end \in OptOf(SeqInts) :
           Begin /\ AddBytesRangeCall(1, start, end, 1)
    \/ AddBytesRangeReturn(1) /\ UNCHANGED ncalls
    \/ AddBytesRangeStore(1) /\ UNCHANGED ncalls

SpecSeq == Init /\ [][NextSeq]_vars

\* callbacks: one that returns nothing, one that returns a value, one that raises
Callbacks == {[kind |-> "returns", value |-> None],
              [kind |-> "returns", value |-> Some(1)],
              [kind |-> "raises"]}

LitBytes == <<"b", "y", "t", "e", "s">>
CaseVariants == {LitBytes, <<"B", "y", "t", "e", "s">>, <<"b", "Y", "T", "E", "S">>}

\* numbers as a server writes them, each with the number it denotes
Fields == {[text |-> Decimal(n), value |-> n] : n \in {0, 500, 1000}}
          \cup {[text |-> <<"0", "0", "7">>, value |-> 7]}

\* the pieces a Content-Range value is put together from
Leading == {<<>>, <<" ">>}
Units == CaseVariants \cup {<<"c", "h", "u", "n", "k", "s">>, <<>>}
Separators == {<<" ">>, <<>>, <<" ", " ">>}
EndFields == {[text |-> Decimal(n), value |-> n] : n \in {0, 999}}
TotalFields == {[text |-> Decimal(n), value |-> n] : n \in {1, 1000}}
StartTexts == {f.text : f \in Fields} \cup {<<"a", "b", "c">>, <<"-", "1">>}
EndTexts == {f.text : f \in EndFields} \cup {<<>>}
TotalTexts == {<<"/">> \o f.text : f \in TotalFields} \cup {<<>>, <<"/", "*">>}
Trailing == {<<>>, <<" ">>, <<"x", "y", "z">>}

HeaderValues ==
    { l \o u \o p \o s \o <<"-">> \o e \o t \o r :
        l \in Leading, u \in Units, p \in Separators, s \in StartTexts,
        e \in EndTexts, t \in TotalTexts, r \in Trailing }

ResponseWith(v) == [headers |-> [k \in {CONTENT_RANGE_HEADER} |-> v]]
ResponseWithout == [headers |-> [k \in {"content-length"} |-> <<"1", "0">>]]

Responses == {ResponseWith(v) : v \in HeaderValues} \cup {ResponseWithout}

NextParse ==
    \/ /\ gpc = "idle"
       /\ \E resp \in Responses, cb \in Callbacks : GetRangeInfoCall(resp, cb)
    \/ GetRangeInfoHeader
    \/ GetRangeInfoMatch
    \/ GetRangeInfoCallback
    \/ GetRangeInfoRaise
    \/ GetRangeInfoReturn

InitParse == Init /\ heap = [c \in Callers |-> EmptyDict]

SpecParse == InitParse /\ [][NextParse]_vars

-----------------------------------------------------------------------------
(* What the claims are stated with *)

\* the decimal digits of a natural number, by place value
DecText(n) ==
    LET len == CHOOSE k \in 1..(n + 1) : n < 10^k /\ (k = 1 \/ 10^(k - 1) <= n)
    IN [i \in 1..len |-> DigitChars[((n \div 10^(len - i)) % 10) + 1]]

SignedText(n) == IF n < 0 THEN <<"-">> \o DecText(-n) ELSE DecText(n)

\* the token the table of the specification gives for (start, end)
ExpectedToken(start, end) ==
    IF start = None THEN <<"0", "-">> \o SignedText(Val(end))
    ELSE IF end = None
    THEN (IF Val(start) >= 0 THEN SignedText(Val(start)) \o <<"-">>
          ELSE SignedText(Val(start)))
    ELSE SignedText(Val(start)) \o <<"-">> \o SignedText(Val(end))

RangeEntry(d) == IF RANGE_HEADER \in DOMAIN d THEN Some(d[RANGE_HEADER]) ELSE None

\* a non-negative decimal number
IsNumber(text) == Len(text) > 0 /\ \A i \in 1..Len(text) : IsDigit(text[i])

\* N-M, N-, -N (0-M is an N-M)
IsRangeToken(t) ==
    \E k \in 1..Len(t) :
        /\ t[k] = "-"
        /\ LET left == SubSeq(t, 1, k - 1)
               right == SubSeq(t, k + 1, Len(t))
           IN \/ IsNumber(left) /\ IsNumber(right)
              \/ IsNumber(left) /\ right = <<>>
              \/ left = <<>> /\ IsNumber(right)

\* bytes=<token>
IsRangeSyntax(v) ==
    /\ Len(v) > 6
    /\ SubSeq(v, 1, 6) = <<"b", "y", "t", "e", "s", "=">>
    /\ IsRangeToken(SubSeq(v, 7, Len(v)))

Count(seq, x) == Cardinality({i \in 1..Len(seq) : seq[i] = x})

\* the whole text is bytes {start}-{end}/{total}, the unit in any letter case
IsContentRangeForm(text) ==
    /\ Len(text) >= 11
    /\ \A k \in 1..5 :
          text[k] \in {<<"b", "y", "t", "e", "s">>[k], <<"B", "Y", "T", "E", "S">>[k]}
    /\ text[6] = " "
    /\ \E i, j \in 7..Len(text) :
          /\ i < j
          /\ text[i] = "-"
          /\ text[j] = "/"
          /\ IsNumber(SubSeq(text, 7, i - 1))
          /\ IsNumber(SubSeq(text, i + 1, j - 1))
          /\ IsNumber(SubSeq(text, j + 1, Len(text)))

Done == gpc = "done"
Result == Val(outcome)
HeaderPresent == CONTENT_RANGE_HEADER \in DOMAIN Val(response).headers

\* the InvalidResponse of get_range_info for the response and header at hand
MalformedError ==
    Raise(InvalidResponse(Val(response),
        <<"Unexpected content-range header", Val(content_range),
          "Expected to be of the form \"bytes {start}-{end}/{total}\"">>))

-----------------------------------------------------------------------------
(* Claims *)

\* C1: a call with a bound that is not None reaches the final assignment, and
\* after it headers['range'] is 'bytes=' followed by 0-E, S-, S (negative
\* start, no end) or S-E, whatever the order and sign of the bounds.
C1_RangeValue ==
    /\ \A c \in Callers :
          pc[c] # "idle" /\ <<frame[c].start, frame[c].end>> # <<None, None>>
              => pc[c] = "store"
    /\ \A m \in DOMAIN heap :
          lastSet[m] # None =>
              RangeEntry(heap[m]) =
                  Some(<<"b", "y", "t", "e", "s", "=">>
                       \o ExpectedToken(lastSet[m][1], lastSet[m][2]))

\* a call with end < start has completed
C1_Witness == pc[1] = "idle" /\ lastSet[1] = <<Some(500), Some(499)>>

\* C2: no step of a call add_bytes_range(None, None, headers) changes a dict:
\* the dict after the call is the dict before it, with or without a range.
C2_NoOp ==
    [][\A c \in Callers :
          \/ pc[c] # "idle" /\ frame[c].start = None /\ frame[c].end = None
          \/ pc'[c] # "idle" /\ frame'[c].start = None /\ frame'[c].end = None
          => heap' = heap]_vars

\* a call with no bounds is at its return, on a dict that holds a range
C2_Witness ==
    /\ pc[1] = "return"
    /\ frame[1].start = None /\ frame[1].end = None
    /\ RANGE_HEADER \in DOMAIN heap[frame[1].headers]
    /\ lastSet[frame[1].headers] # None

\* C6 as stated: every value written is bytes=<token> with token one of N-M,
\* N-, -N, 0-M, for every pair of bounds that are not both None.
C6_Original ==
    \A m \in DOMAIN heap :
        lastSet[m] # None => IsRangeSyntax(heap[m][RANGE_HEADER])

\* the bounds the notes in the code assume: an end that is set is not
\* negative, and a start that comes with it is not negative either
C6_Assumed(start, end) ==
    end # None => Val(end) >= 0 /\ (start # None => Val(start) >= 0)

\* C6 amended: every value written for bounds as the code assumes them is
\* bytes=<token> with token one of N-M, N-, -N, 0-M.
C6_Amended ==
    \A m \in DOMAIN heap :
        lastSet[m] # None /\ C6_Assumed(lastSet[m][1], lastSet[m][2])
            => IsRangeSyntax(heap[m][RANGE_HEADER])

\* a suffix range has been written
C6_Witness == pc[1] = "idle" /\ lastSet[1] = <<Some(-500), None>>

\* C9, the state part: the range entry is the one of the last call that had a
\* bound, and the original entry or absence when there was none.
C9_LastWins ==
    \A m \in DOMAIN heap :
        RangeEntry(heap[m]) =
            IF lastSet[m] = None
            THEN RangeEntry(orig[m])
            ELSE Some(BytesEq \o ExpectedToken(lastSet[m][1], lastSet[m][2]))

\* C9, the step part: the assignment of a call that repeats the last call
\* with a bound leaves the dict as it is.
C9_Repeat ==
    \A c \in Callers :
        pc[c] = "store" /\ pc'[c] = "idle"
        /\ lastSet[frame[c].headers] = <<frame[c].start, frame[c].end>>
            => heap' = heap

\* C9: add_bytes_range keeps no state and is idempotent: the last call with a
\* bound decides the range entry, and repeating a call changes nothing.
C9_LastCallWins == []C9_LastWins /\ [][C9_Repeat]_vars

\* three calls have been made on a dict that came with a range, the last
\* with other bounds than the range it found
C9_Witness ==
    /\ ncalls = MaxCalls
    /\ pc[1] = "idle"
    /\ RangeEntry(orig[1]) # None
    /\ lastSet[1] = <<None, Some(499)>>

\* C8, the state part: every dict holds what its owner's calls alone make of
\* it, and an instance made with headers=None has a dict that was made empty
\* and that no other instance made with headers=None and no earlier instance has.
C8_Own ==
    /\ \A m \in DOMAIN heap : heap[m] = alone[m]
    /\ \A i \in ctorNone :
          /\ orig[downloads[i]._headers] = EmptyDict
          /\ \A j \in DOMAIN downloads :
                (j < i \/ j \in ctorNone) /\ j # i
                    => downloads[j]._headers # downloads[i]._headers

\* C8, the step part: a step changes at most one dict, by the final
\* assignment of a call that was given that dict, and in it at most the
\* range entry; a constructor call with headers=None binds a dict that did
\* not exist, is empty, and that no caller held.
C8_Frame ==
    /\ \A m \in DOMAIN heap :
          /\ \A k \in (DOMAIN heap[m] \cup DOMAIN heap'[m]) \ {RANGE_HEADER} :
                k \in DOMAIN heap[m] /\ k \in DOMAIN heap'[m]
                /\ heap'[m][k] = heap[m][k]
          /\ heap'[m] # heap[m] =>
                /\ \E c \in Callers :
                      /\ pc[c] = "store" /\ pc'[c] = "idle"
                      /\ frame[c].headers = m
                      /\ owner[m] = c
                /\ \A n \in DOMAIN heap : n # m => heap'[n] = heap[n]
    /\ Len(downloads') > Len(downloads) /\ Len(downloads') \in ctorNone' =>
          LET m == downloads'[Len(downloads')]._headers
          IN /\ m \notin DOMAIN heap
             /\ heap'[m] = EmptyDict
             /\ \A c \in Callers : m \notin refs[c]

\* C8: add_bytes_range changes only the dict it is given, and there only the
\* range entry, so callers that pass their own dicts do not disturb each
\* other; DownloadBase(headers=None) gets a new empty dict of its own.
C8_OwnMapping == []C8_Own /\ [][C8_Frame]_vars

\* a call has written to the dict of an instance made with headers=None
\* while another caller stands at its own assignment
C8_Witness ==
    \E i \in ctorNone, c \in Callers :
        /\ lastSet[downloads[i]._headers] # None
        /\ pc[c] = "store"
        /\ owner[downloads[i]._headers] # c

\* C3: a header bytes S-E/T, the unit in any letter case, gives exactly
\* (S, E, T), also when S > E or E >= T.
C3_Triple ==
    \A u \in CaseVariants, fs \in Fields, fe \in EndFields, ft \in TotalFields :
        Done /\ content_range =
                    Some(u \o <<" ">> \o fs.text \o <<"-">> \o fe.text
                           \o <<"/">> \o ft.text)
            => outcome = Some(Return(<<fs.value, fe.value, ft.value>>))

\* bYTES 1000-999/1 has been parsed
C3_Witness ==
    /\ Done
    /\ content_range = Some(<<"b", "Y", "T", "E", "S", " ", "1", "0", "0", "0", "-",
                              "9", "9", "9", "/", "1">>)
    /\ Result.kind = "return"

\* C4 as stated: a header that does not match has the callback run once,
\* before the raise, and the call fails with InvalidResponse carrying the
\* response, the message, the header value and the expected form.
C4_Original ==
    Done /\ content_range # None /\ match = None
        => /\ events = <<"header_required", "match", "callback", "raise">>
           /\ outcome = Some(MalformedError)

\* C4 amended: a header that does not match has the callback run once, before
\* anything is raised, and no triple is returned: when the callback returns,
\* whatever it returns, the call fails with InvalidResponse carrying the
\* response, the message, the header value and the expected form; when the
\* callback raises, the call fails with the callback's exception.
C4_Amended ==
    Done /\ content_range # None /\ match = None
        => /\ Count(events, "callback") = 1
           /\ Result.kind = "raise"
           /\ callback.kind = "returns" =>
                 /\ events = <<"header_required", "match", "callback", "raise">>
                 /\ outcome = Some(MalformedError)
           /\ callback.kind = "raises" =>
                 /\ events = <<"header_required", "match", "callback">>
                 /\ outcome = Some(Raise(CallbackError))

\* bytes abc-999/1000 has been refused with a callback that returns a value
C4_Witness ==
    /\ Done
    /\ content_range = Some(<<"b", "y", "t", "e", "s", " ", "a", "b", "c", "-",
                              "9", "9", "9", "/", "1", "0", "0", "0">>)
    /\ callback = [kind |-> "returns", value |-> Some(1)]
    /\ outcome = Some(MalformedError)

\* C5 as stated: a triple is returned only when the whole header value is
\* bytes {start}-{end}/{total}; anything before or after it is refused.
C5_Original ==
    Done /\ Result.kind = "return" => IsContentRangeForm(Val(content_range))

\* C7: without a Content-Range header the call ends with the failure of
\* header_required as it is, not with the InvalidResponse of get_range_info;
\* nothing is matched, the callback is not run and no triple is returned.
C7_MissingHeader ==
    Done /\ ~HeaderPresent
        => /\ outcome = Some(header_required(Val(response), CONTENT_RANGE_HEADER))
           /\ Result.kind = "raise"
           /\ Result.exc.type # "InvalidResponse"
           /\ events = <<"header_required">>
           /\ match = None

\* a response without the header has been handled
C7_Witness == Done /\ response = Some(ResponseWithout)

\* C10 as stated: the callback is not run when a triple is returned nor when
\* the header is missing, and once it has run the call ends in InvalidResponse.
C10_Original ==
    /\ Count(events, "callback") > 0 /\ Done => outcome = Some(MalformedError)
    /\ Done /\ Result.kind = "return" => Count(events, "callback") = 0
    /\ Done /\ ~HeaderPresent => Count(events, "callback") = 0

\* C10 amended: the callback is not run when a triple is returned nor when the
\* header is missing; once it has run the header was there and did not match,
\* and the call ends in a failure: InvalidResponse when the callback returned,
\* the callback's exception when it raised.
C10_Amended ==
    /\ Count(events, "callback") > 0 =>
          /\ content_range # None /\ match = None
          /\ Done => \/ callback.kind = "returns" /\ outcome = Some(MalformedError)
                     \/ callback.kind = "raises" /\ outcome = Some(Raise(CallbackError))
    /\ Done /\ Result.kind = "return" => Count(events, "callback") = 0
    /\ Done /\ ~HeaderPresent => Count(events, "callback") = 0

\* a triple has been returned to a caller whose callback would have raised
C10_Witness ==
    /\ Done
    /\ Result.kind = "return"
    /\ callback.kind = "raises"
    /\ events = <<"header_required", "match", "return">>

====
